---- MODULE Spec2Model ----
(***************************************************************************)
(* A model of csv-to-biiif.ts: the conversion of the rows of a CSV file    *)
(* into a biiif directory tree with info.yml sidecars and copied assets.   *)
(*                                                                         *)
(* JavaScript strings are sequences of one-character strings, so that      *)
(* startsWith, includes, split, the regular expressions, parseInt and      *)
(* path.join are computed character by character as the code computes     *)
(* them.  JavaScript values are tagged records.                            *)
(***************************************************************************)
EXTENDS Integers, Sequences, FiniteSets, TLC

(***************************************************************************)
(* Bounds of the model.                                                    *)
(***************************************************************************)
\* the longest generated hierarchy, in segments
MaxDepth == 3
\* the longest digit run of a generated file name
MaxDigits == 2
\* the most rows of a generated CSV file
MaxRows == 2

(***************************************************************************)
(* JavaScript values.                                                      *)
(***************************************************************************)
Str(chars) == [t |-> "string", s |-> chars]
Num(k) == [t |-> "number", n |-> k]
NaN == [t |-> "NaN"]
Undefined == [t |-> "undefined"]

\* ToBoolean, as `if (v)` and `!v` apply it
Truthy(v) ==
    CASE v.t = "string" -> v.s # <<>>
      [] v.t = "number" -> v.n # 0
      [] OTHER -> FALSE

\* === on the results of parseInt: NaN equals nothing, itself included
StrictEq(a, b) == a.t = "number" /\ b.t = "number" /\ a.n = b.n

(***************************************************************************)
(* Characters and strings.                                                 *)
(***************************************************************************)
UpperChars == <<"A", "B", "C", "D", "E", "F", "G", "H", "I", "J", "K", "L", "M",
                "N", "O", "P", "Q", "R", "S", "T", "U", "V", "W", "X", "Y", "Z">>
LowerChars == <<"a", "b", "c", "d", "e", "f", "g", "h", "i", "j", "k", "l", "m",
                "n", "o", "p", "q", "r", "s", "t", "u", "v", "w", "x", "y", "z">>
DigitChars == <<"0", "1", "2", "3", "4", "5", "6", "7", "8", "9">>

IsDigit(c) == \E i \in DOMAIN DigitChars : DigitChars[i] = c
DigitVal(c) == (CHOOSE i \in DOMAIN DigitChars : DigitChars[i] = c) - 1

LowerChar(c) ==
    IF \E i \in DOMAIN UpperChars : UpperChars[i] = c
    THEN LowerChars[CHOOSE i \in DOMAIN UpperChars : UpperChars[i] = c]
    ELSE c

\* String.prototype.toLowerCase
toLowerCase(s) == [i \in DOMAIN s |-> LowerChar(s[i])]

\* the substring of s from position i (1-based) to the end
From(s, i) == SubSeq(s, i, Len(s))

\* s has t at position i
HasAt(s, t, i) == i >= 1 /\ i + Len(t) - 1 <= Len(s) /\ SubSeq(s, i, i + Len(t) - 1) = t

\* String.prototype.startsWith and String.prototype.includes
startsWith(s, t) == HasAt(s, t, 1)
includes(s, t) == \E i \in 1..(Len(s) + 1) : HasAt(s, t, i)

\* the length of the run of digits of s that starts at position i
RECURSIVE DigitRun(_, _)
DigitRun(s, i) == IF i <= Len(s) /\ IsDigit(s[i]) THEN 1 + DigitRun(s, i + 1) ELSE 0

\* the value of a string of decimal digits
RECURSIVE DecimalValue(_)
DecimalValue(d) ==
    IF d = <<>> THEN 0
    ELSE 10 * DecimalValue(SubSeq(d, 1, Len(d) - 1)) + DigitVal(d[Len(d)])

\* parseInt(s): leading blanks, an optional sign, then the longest run of
\* decimal digits; NaN when there is no digit there
RECURSIVE SkipBlanks(_)
SkipBlanks(s) == IF s # <<>> /\ s[1] = " " THEN SkipBlanks(Tail(s)) ELSE s

parseInt(s) ==
    LET t == SkipBlanks(s)
        signed == t # <<>> /\ t[1] \in {"-", "+"}
        body == IF signed THEN Tail(t) ELSE t
        k == DigitRun(body, 1)
        v == DecimalValue(SubSeq(body, 1, k))
    IN IF k = 0 THEN NaN
       ELSE Num(IF signed /\ t[1] = "-" THEN 0 - v ELSE v)

\* the decimal digits of a natural number, as Number.prototype.toString gives
RECURSIVE NatToString(_)
NatToString(k) ==
    IF k < 10 THEN <<DigitChars[k + 1]>>
    ELSE NatToString(k \div 10) \o <<DigitChars[(k % 10) + 1]>>

\* value.toString() for the values a row field can hold when it is truthy
toString(v) ==
    CASE v.t = "string" -> v.s
      [] v.t = "number" -> IF v.n < 0 THEN <<"-">> \o NatToString(0 - v.n) ELSE NatToString(v.n)
      [] OTHER -> <<"N", "a", "N">>

\* String.prototype.split on a one-character separator
RECURSIVE split(_, _)
split(s, sep) ==
    IF \E i \in DOMAIN s : s[i] = sep
    THEN LET i == CHOOSE j \in DOMAIN s : s[j] = sep /\ \A h \in 1..(j - 1) : s[h] # sep
         IN <<SubSeq(s, 1, i - 1)>> \o split(From(s, i + 1), sep)
    ELSE <<s>>

\* String.prototype.trim, for blanks
RECURSIVE trimEnd(_)
trimEnd(s) == IF s # <<>> /\ s[Len(s)] = " " THEN trimEnd(SubSeq(s, 1, Len(s) - 1)) ELSE s
trim(s) == trimEnd(SkipBlanks(s))

\* the position of the last c in s, 0 when there is none
LastIndexOf(s, c) ==
    IF \E i \in DOMAIN s : s[i] = c
    THEN CHOOSE i \in DOMAIN s : s[i] = c /\ \A j \in (i + 1)..Len(s) : s[j] # c
    ELSE 0

(***************************************************************************)
(* String constants of the code.                                           *)
(***************************************************************************)
s_canvas == <<"c", "a", "n", "v", "a", "s">>
s_manifest == <<"m", "a", "n", "i", "f", "e", "s", "t">>
s_audio == <<"a", "u", "d", "i", "o">>
s_part == <<"p", "a", "r", "t">>
s_mp3 == <<".", "m", "p", "3">>
s_jpg == <<".", "j", "p", "g">>
s_jpeg == <<".", "j", "p", "e", "g">>
s_png == <<".", "p", "n", "g">>
s_tiff == <<".", "t", "i", "f", "f">>
s_tif == <<".", "t", "i", "f">>
s_mp4 == <<".", "m", "p", "4">>
s_wav == <<".", "w", "a", "v">>
s_m4a == <<".", "m", "4", "a">>
s_yml == <<".", "y", "m", "l">>
s_thumb == <<"t", "h", "u", "m", "b", ".">>
s_info_yml == <<"i", "n", "f", "o", ".", "y", "m", "l">>
s_dot == <<".">>
s_dotdot == <<".", ".">>

(***************************************************************************)
(* Paths.  A file of the input directory is a record [dir, base]: the      *)
(* directory that holds it and its file name.  A path of the output tree   *)
(* is the sequence of its segments.                                        *)
(***************************************************************************)
basename(file) == file.base
dirname(file) == file.dir

\* path.extname: from the last dot of the file name to its end; empty when
\* there is no dot or the only dot opens the name
extname(file) ==
    LET b == basename(file)
        k == LastIndexOf(b, ".")
    IN IF k <= 1 THEN <<>> ELSE From(b, k)

\* path.normalize on the segments of a relative path: empty and `.` segments
\* vanish, `..` removes the segment before it
RECURSIVE normalize(_, _)
normalize(stack, segs) ==
    IF segs = <<>> THEN stack
    ELSE LET seg == Head(segs)
             next == IF seg = <<>> \/ seg = s_dot THEN stack
                     ELSE IF seg = s_dotdot
                          THEN IF stack # <<>> /\ stack[Len(stack)] # s_dotdot
                               THEN SubSeq(stack, 1, Len(stack) - 1)
                               ELSE Append(stack, s_dotdot)
                          ELSE Append(stack, seg)
         IN normalize(next, Tail(segs))

\* path.join(base, ...segs)
join(base, segs) == normalize(<<>>, base \o segs)

\* the directories mkdirSync(path, {recursive: true}) makes sure exist
mkdirSync(path) == {SubSeq(path, 1, k) : k \in 1..Len(path)}

\* the output directory of the run
outputDir == << <<"o", "u", "t">> >>

(***************************************************************************)
(* processRecord: the classification of the hierarchy and its validation.  *)
(***************************************************************************)
\* record.hierarchy.split('/')
splitHierarchy(h) == split(h, "/")

lastPart(h) == splitHierarchy(h)[Len(splitHierarchy(h))]

isCanvas(h) == startsWith(lastPart(h), s_canvas)

isManifest(h) == includes(lastPart(h), s_manifest)

\* parts, had the underscore been forgotten
partsWithoutMarker(h) == splitHierarchy(h)

\* parts, after the canvas segment got its underscore
parts(h) ==
    LET p == splitHierarchy(h)
    IN IF isCanvas(h) THEN [p EXCEPT ![Len(p)] = <<"_">> \o lastPart(h)] ELSE p

\* parentPart: a string, or null (modelled by Undefined: both are falsy)
parentPart(h) ==
    IF Len(parts(h)) > 1 THEN Str(parts(h)[Len(parts(h)) - 1]) ELSE Undefined

\* the canvas rule, had its negation been forgotten
canvasWarningInverted(h) ==
    isCanvas(h) /\ Truthy(parentPart(h)) /\ includes(parentPart(h).s, s_manifest)

canvasWarning(h) ==
    isCanvas(h) /\ Truthy(parentPart(h)) /\ ~includes(parentPart(h).s, s_manifest)

manifestWarning(h) ==
    isManifest(h) /\ Truthy(parentPart(h)) /\ includes(parentPart(h).s, s_manifest)

fullPath(h) == join(outputDir, parts(h))

(***************************************************************************)
(* processRecord: the canvas index and the matching of files.              *)
(***************************************************************************)
\* s.replace(/[_canvas]+/, ''): the first run of characters among
\* _ c a n v s is removed
CanvasChars == {"_", "c", "a", "n", "v", "s"}

RECURSIVE CanvasRun(_, _)
CanvasRun(s, i) == IF i <= Len(s) /\ s[i] \in CanvasChars THEN 1 + CanvasRun(s, i + 1) ELSE 0

\* a replace that drops every character that is not a digit
replaceNonDigits(s) == SelectSeq(s, IsDigit)

\* s.replace(/[_canvas]+/, ''): the first run of marker characters is dropped
replaceCanvas(s) ==
    IF \E i \in DOMAIN s : s[i] \in CanvasChars
    THEN LET i == CHOOSE j \in DOMAIN s :
                      s[j] \in CanvasChars /\ \A k \in 1..(j - 1) : s[k] \notin CanvasChars
         IN SubSeq(s, 1, i - 1) \o From(s, i + CanvasRun(s, i))
    ELSE s

canvasNum(h) == replaceCanvas(parts(h)[Len(parts(h))])

canvasIndex(h) == parseInt(canvasNum(h))

\* parts[parts.length - 2] === 'audio'
isAudio(h) == Len(parts(h)) >= 2 /\ parts(h)[Len(parts(h)) - 1] = s_audio

\* s.match(/part(\d+)(?:-\d+)?\.mp3$/): the first group, or no match
\* (Undefined).  The digits are taken greedily; what follows them is a dash
\* with digits and then .mp3, or .mp3, and then the end of the string.
AudioMatchAt(s, i) ==
    /\ HasAt(s, s_part, i)
    /\ LET d == i + Len(s_part)
           k == DigitRun(s, d)
           e == d + k
       IN /\ k >= 1
          /\ \/ From(s, e) = s_mp3
             \/ /\ e <= Len(s) /\ s[e] = "-"
                /\ DigitRun(s, e + 1) >= 1
                /\ From(s, e + 1 + DigitRun(s, e + 1)) = s_mp3

audioMatch(s) ==
    IF \E i \in DOMAIN s : AudioMatchAt(s, i)
    THEN LET i == CHOOSE j \in DOMAIN s :
                      AudioMatchAt(s, j) /\ \A k \in 1..(j - 1) : ~AudioMatchAt(s, k)
             d == i + Len(s_part)
         IN Str(SubSeq(s, d, d + DigitRun(s, d) - 1))
    ELSE Undefined

\* s.match(/_(\d+)\.[^.]+$/): the first group, or no match (Undefined)
ImageMatchAt(s, i) ==
    /\ i <= Len(s) /\ s[i] = "_"
    /\ LET k == DigitRun(s, i + 1)
           e == i + 1 + k
       IN /\ k >= 1
          /\ e < Len(s) /\ s[e] = "."
          /\ \A j \in (e + 1)..Len(s) : s[j] # "."

imageMatch(s) ==
    IF \E i \in DOMAIN s : ImageMatchAt(s, i)
    THEN LET i == CHOOSE j \in DOMAIN s :
                      ImageMatchAt(s, j) /\ \A k \in 1..(j - 1) : ~ImageMatchAt(s, k)
         IN Str(SubSeq(s, i + 1, i + DigitRun(s, i + 1)))
    ELSE Undefined

\* the audio predicate, had the digits been compared as text
matchesAudioByText(file, index) ==
    LET ext == toLowerCase(extname(file))
        match == audioMatch(toLowerCase(basename(file)))
    IN ext = s_mp3 /\ match # Undefined /\ match.s = toString(index)

\* the predicate of files.filter(...) for an audio canvas
matchesAudio(file, index) ==
    LET ext == toLowerCase(extname(file))
        match == audioMatch(toLowerCase(basename(file)))
    IN ext = s_mp3 /\ match # Undefined /\ StrictEq(parseInt(match.s), index)

\* the image predicate, had the extension been compared as it is written
matchesImageCaseSensitive(file, index) ==
    LET ext == extname(file)
        match == imageMatch(toLowerCase(basename(file)))
    IN ext \in {s_jpg, s_jpeg} /\ match # Undefined /\ StrictEq(parseInt(match.s), index)

\* the predicate of files.filter(...) for an image canvas
matchesImage(file, index) ==
    LET ext == toLowerCase(extname(file))
        match == imageMatch(toLowerCase(basename(file)))
    IN ext \in {s_jpg, s_jpeg} /\ match # Undefined /\ StrictEq(parseInt(match.s), index)

matches(file, audio, index) ==
    IF audio THEN matchesAudio(file, index) ELSE matchesImage(file, index)

\* Array.from(fileMap.values()).flat(): the files of every bucket, in order
RECURSIVE flat(_)
flat(buckets) == IF buckets = <<>> THEN <<>> ELSE Head(buckets).files \o flat(Tail(buckets))

\* a filter that looks at the files of the first bucket only
filterFilesFirstBucket(map, h) ==
    LET Keep(file) == matches(file, isAudio(h), canvasIndex(h))
    IN IF map = <<>> THEN <<>> ELSE SelectSeq(Head(map).files, Keep)

\* matchingFiles of a canvas row
filterFiles(map, h) ==
    LET Keep(file) == matches(file, isAudio(h), canvasIndex(h))
    IN SelectSeq(flat(map), Keep)

(***************************************************************************)
(* Rows.  A row maps the names of the columns the CSV file has to the      *)
(* strings of its cells; the metadata extraction adds and assigns the      *)
(* technical fields.                                                       *)
(***************************************************************************)
GroupColumns ==
    <<"requiredStatement.label", "requiredStatement.value",
      "provider.id", "provider.type", "provider.label",
      "homepage.id", "homepage.type", "homepage.label",
      "seeAlso.id", "seeAlso.type", "seeAlso.label",
      "rendering.id", "rendering.type", "rendering.label",
      "start.id", "start.type", "start.label",
      "supplementary.id", "supplementary.type", "supplementary.label",
      "services.id", "services.type", "services.profile">>

MetadataColumns == <<"metadata.Author", "metadata.Date">>

\* key.replace('metadata.', '')
metadataKey(key) == IF key = "metadata.Author" THEN "Author" ELSE "Date"

Columns ==
    <<"hierarchy", "label", "description", "attribution", "behavior", "width",
      "height", "duration", "viewingHint", "viewingDirection", "navDate", "summary">>
    \o MetadataColumns \o GroupColumns

ColumnSet == {Columns[c] : c \in DOMAIN Columns}

\* record[key]: Undefined for a column the row does not have
Get(record, key) == IF key \in DOMAIN record THEN record[key] ELSE Undefined

\* record[key] = value
Set(record, key, value) ==
    [c \in DOMAIN record \cup {key} |-> IF c = key THEN value ELSE record[c]]

(***************************************************************************)
(* addFileMetadata.  A probe is what sharp(...).metadata() or ffprobe(...) *)
(* answers for the file: ok is FALSE when the call throws; streams is the  *)
(* number of streams ffprobe reports and duration is                       *)
(* Number(info.streams[0].duration).                                       *)
(***************************************************************************)
ImageExts == {s_jpg, s_jpeg, s_png, s_tiff, s_tif}
MediaExts == {s_mp3, s_mp4, s_wav, s_m4a}

\* addFileMetadata, had it assigned without looking at the row
addFileMetadataOverwriting(filePath, record, probe) ==
    LET ext == toLowerCase(extname(filePath))
    IN IF ext \in ImageExts
       THEN IF probe.ok
            THEN Set(Set(record, "width", probe.width), "height", probe.height)
            ELSE record
       ELSE IF ext \in MediaExts
            THEN IF probe.ok /\ probe.streams > 0
                 THEN Set(record, "duration", probe.duration)
                 ELSE record
            ELSE record

addFileMetadata(filePath, record, probe) ==
    LET ext == toLowerCase(extname(filePath))
    IN IF ext \in ImageExts
       THEN IF probe.ok
            THEN LET r1 == IF ~Truthy(Get(record, "width"))
                           THEN Set(record, "width", probe.width) ELSE record
                 IN IF ~Truthy(Get(r1, "height"))
                    THEN Set(r1, "height", probe.height) ELSE r1
            ELSE record
       ELSE IF ext \in MediaExts
            THEN IF probe.ok /\ probe.streams > 0 /\ ~Truthy(Get(record, "duration"))
                 THEN Set(record, "duration", probe.duration)
                 ELSE record
            ELSE record

\* the warnings of the catch blocks of addFileMetadata
addFileMetadataWarnings(filePath, probe, row) ==
    LET ext == toLowerCase(extname(filePath))
    IN IF ext \in ImageExts /\ ~probe.ok
       THEN <<[kind |-> "image probe failed", row |-> row]>>
       ELSE IF ext \notin ImageExts /\ ext \in MediaExts /\ ~probe.ok
            THEN <<[kind |-> "media probe failed", row |-> row]>>
            ELSE <<>>

(***************************************************************************)
(* createInfoYml.  The document is the sequence of its entries in the      *)
(* order the code assigns them, which is the order js-yaml dumps them in.  *)
(***************************************************************************)
Entry(key, value) == [key |-> key, value |-> value]
Map(entries) == [t |-> "map", entries |-> entries]
List(items) == [t |-> "list", items |-> items]

\* if (cond) info[key] = value
Opt(cond, key, value) == IF cond THEN <<Entry(key, value)>> ELSE <<>>

\* record.behavior.split(',').map(b => b.trim()), or the string itself
behaviorValue(b) ==
    IF includes(b.s, <<",">>)
    THEN List([j \in DOMAIN split(b.s, ",") |-> Str(trim(split(b.s, ",")[j]))])
    ELSE b

\* parseFloat on the strings of the model, which hold whole numbers
parseFloat(s) == parseInt(s)

RECURSIVE metadataEntries(_, _)
metadataEntries(record, cols) ==
    IF cols = <<>> THEN <<>>
    ELSE Opt(Truthy(Get(record, Head(cols))), metadataKey(Head(cols)), Get(record, Head(cols)))
         \o metadataEntries(record, Tail(cols))

\* a group of two or three sub-keys: emitted when every sub-key is truthy
group(record, name, k1, n1, k2, n2) ==
    Opt(Truthy(Get(record, k1)) /\ Truthy(Get(record, k2)), name,
        Map(<<Entry(n1, Get(record, k1)), Entry(n2, Get(record, k2))>>))

\* a group of three, had its last sub-key not been asked for
group3TwoKeys(record, name, k1, n1, k2, n2, k3, n3) ==
    Opt(Truthy(Get(record, k1)) /\ Truthy(Get(record, k2)), name,
        Map(<<Entry(n1, Get(record, k1)), Entry(n2, Get(record, k2)), Entry(n3, Get(record, k3))>>))

group3(record, name, k1, n1, k2, n2, k3, n3) ==
    Opt(Truthy(Get(record, k1)) /\ Truthy(Get(record, k2)) /\ Truthy(Get(record, k3)), name,
        Map(<<Entry(n1, Get(record, k1)), Entry(n2, Get(record, k2)), Entry(n3, Get(record, k3))>>))

createInfoYml(record) ==
    Opt(Truthy(Get(record, "label")), "label", Get(record, "label"))
    \o Opt(Truthy(Get(record, "description")), "description", Get(record, "description"))
    \o Opt(Truthy(Get(record, "attribution")), "attribution", Get(record, "attribution"))
    \o (IF Truthy(Get(record, "behavior"))
        THEN <<Entry("behavior", behaviorValue(Get(record, "behavior")))>> ELSE <<>>)
    \o (IF Truthy(Get(record, "width"))
        THEN <<Entry("width", parseInt(toString(Get(record, "width"))))>> ELSE <<>>)
    \o (IF Truthy(Get(record, "height"))
        THEN <<Entry("height", parseInt(toString(Get(record, "height"))))>> ELSE <<>>)
    \o (IF Truthy(Get(record, "duration"))
        THEN <<Entry("duration", parseFloat(toString(Get(record, "duration"))))>> ELSE <<>>)
    \o Opt(Truthy(Get(record, "viewingHint")), "viewingHint", Get(record, "viewingHint"))
    \o Opt(Truthy(Get(record, "viewingDirection")), "viewingDirection", Get(record, "viewingDirection"))
    \o Opt(Truthy(Get(record, "navDate")), "navDate", Get(record, "navDate"))
    \o (IF metadataEntries(record, MetadataColumns) # <<>>
        THEN <<Entry("metadata", Map(metadataEntries(record, MetadataColumns)))>> ELSE <<>>)
    \o group(record, "requiredStatement",
             "requiredStatement.label", "label", "requiredStatement.value", "value")
    \o Opt(Truthy(Get(record, "summary")), "summary", Get(record, "summary"))
    \o group3(record, "provider",
              "provider.id", "id", "provider.type", "type", "provider.label", "label")
    \o group3(record, "homepage",
              "homepage.id", "id", "homepage.type", "type", "homepage.label", "label")
    \o group3(record, "seeAlso",
              "seeAlso.id", "id", "seeAlso.type", "type", "seeAlso.label", "label")
    \o group3(record, "rendering",
              "rendering.id", "id", "rendering.type", "type", "rendering.label", "label")
    \o group3(record, "start",
              "start.id", "id", "start.type", "type", "start.label", "label")
    \o group3(record, "supplementary",
              "supplementary.id", "id", "supplementary.type", "type",
              "supplementary.label", "label")
    \o group3(record, "services",
              "services.id", "id", "services.type", "type", "services.profile", "profile")

(***************************************************************************)
(* scanInputDirectory.  The file map is the sequence of its buckets        *)
(* [dir, files] in insertion order, as a JavaScript Map keeps them.        *)
(***************************************************************************)
\* the files glob answers: those of the tree that are neither *.yml nor thumb.*
ignored(file) ==
    \/ HasAt(basename(file), s_yml, Len(basename(file)) - Len(s_yml) + 1)
    \/ startsWith(basename(file), s_thumb)

glob(tree) == LET Kept(file) == ~ignored(file) IN SelectSeq(tree, Kept)

\* Utils.normaliseFilePath: the path with platform-independent separators
normaliseFilePath(entry) == entry

addEntry(map, entry) ==
    LET normalizedPath == normaliseFilePath(entry)
        dirName == dirname(normalizedPath)
    IN IF \E b \in DOMAIN map : map[b].dir = dirName
       THEN LET b == CHOOSE c \in DOMAIN map : map[c].dir = dirName
            IN [map EXCEPT ![b].files = Append(@, normalizedPath)]
       ELSE Append(map, [dir |-> dirName, files |-> <<normalizedPath>>])

RECURSIVE scanEntries(_, _)
scanEntries(map, entries) ==
    IF entries = <<>> THEN map
    ELSE scanEntries(addEntry(map, Head(entries)), Tail(entries))

scanInputDirectory(tree) == scanEntries(<<>>, glob(tree))

(***************************************************************************)
(* The state of a run of csvToHierarchy.                                   *)
(***************************************************************************)
VARIABLES
    csv,            \* the rows as parse() returned them
    records,        \* the rows, as addFileMetadata has changed them since
    inputDir,       \* the third argument: a string, or Undefined
    tree,           \* the files under the input directory, in glob's order
    fileMap,        \* the buckets scanInputDirectory filled
    pc,             \* where the run is: scan, loop, copy, done or failed
    i,              \* the index in records of the row being processed
    matchingFiles,  \* the matching files of the row being processed
    k,              \* the index in matchingFiles of the next file to copy
    dirs,           \* the directories of the output tree
    copies,         \* the copied files of the output tree: [dir, name, source]
    sidecars,       \* the info.yml files of the output tree: [dir, content]
    warnings,       \* what warn and console.warn have reported, in order
    error,          \* the call that threw and ended the run, or "none"
    ops,            \* what this run has done to the file map and the output tree, in order
    probed,         \* what the probes have answered: [file, probe]
    again,          \* the same command will be run once more after this run
    previous        \* the info.yml files the run before this one left, if there was one

vars == <<csv, records, inputDir, tree, fileMap, pc, i, matchingFiles, k,
          dirs, copies, sidecars, warnings, error, ops, probed, again, previous>>

\* the hierarchy string of row r
hierarchyOf(r) == Get(csv[r], "hierarchy").s

\* copyFileSync and writeFileSync replace the file that has the name
copyFileSync(store, dir, file) ==
    {c \in store : ~(c.dir = dir /\ c.name = basename(file))}
    \cup {[dir |-> dir, name |-> basename(file), source |-> file]}

\* a writeFileSync that appends to the file that is there
writeFileSyncAppending(store, dir, content) ==
    {c \in store : c.dir # dir}
    \cup {[dir |-> dir,
           content |-> IF \E c \in store : c.dir = dir
                       THEN (CHOOSE c \in store : c.dir = dir).content \o content
                       ELSE content]}

writeFileSync(store, dir, content) ==
    {c \in store : c.dir # dir} \cup {[dir |-> dir, content |-> content]}

\* the outcomes of the probe of a file
ImageProbes ==
    {[ok |-> FALSE, width |-> Undefined, height |-> Undefined, streams |-> 0, duration |-> Undefined],
     [ok |-> TRUE, width |-> Num(640), height |-> Num(480), streams |-> 0, duration |-> Undefined],
     [ok |-> TRUE, width |-> Num(800), height |-> Num(600), streams |-> 0, duration |-> Undefined]}

MediaProbes ==
    {[ok |-> FALSE, width |-> Undefined, height |-> Undefined, streams |-> 0, duration |-> Undefined],
     [ok |-> TRUE, width |-> Undefined, height |-> Undefined, streams |-> 0, duration |-> Undefined],
     [ok |-> TRUE, width |-> Undefined, height |-> Undefined, streams |-> 1, duration |-> Num(12)],
     [ok |-> TRUE, width |-> Undefined, height |-> Undefined, streams |-> 1, duration |-> NaN]}

\* the input files do not change: a file that was probed answers the same
\* when it is probed again
Probes(file) ==
    IF \E p \in probed : p.file = file
    THEN {p.probe : p \in {q \in probed : q.file = file}}
    ELSE IF toLowerCase(extname(file)) \in ImageExts THEN ImageProbes ELSE MediaProbes

(***************************************************************************)
(* The steps of csvToHierarchy.                                            *)
(***************************************************************************)
\* lines 42-46: the file map is filled when an input directory is given
Scan ==
    /\ pc = "scan"
    /\ fileMap' = IF Truthy(inputDir) THEN scanInputDirectory(tree) ELSE <<>>
    /\ ops' = Append(ops, [op |-> "scan"])
    /\ pc' = "loop"
    /\ UNCHANGED <<csv, records, inputDir, tree, i, matchingFiles, k, dirs, copies,
                   sidecars, warnings, error, probed, again, previous>>

\* glob rejects: the input directory cannot be read
ScanThrows ==
    /\ pc = "scan"
    /\ Truthy(inputDir)
    /\ pc' = "failed"
    /\ error' = "glob"
    /\ UNCHANGED <<csv, records, inputDir, tree, fileMap, i, matchingFiles, k, dirs,
                   copies, sidecars, warnings, ops, probed, again, previous>>

\* the warnings of lines 99-106 for row r
nestingWarnings(r) ==
    (IF canvasWarning(hierarchyOf(r))
     THEN <<[kind |-> "canvas must be inside a manifest", row |-> r]>> ELSE <<>>)
    \o (IF manifestWarning(hierarchyOf(r))
        THEN <<[kind |-> "manifest inside another manifest", row |-> r]>> ELSE <<>>)

\* the matching files of row r: none unless lines 114-162 run for it
matchingFilesOf(map, r) ==
    IF Truthy(inputDir) /\ isCanvas(hierarchyOf(r))
    THEN filterFiles(map, hierarchyOf(r)) ELSE <<>>

\* a processRecord that gives the row up when the validation reports
ProcessRecordStrict ==
    /\ pc = "loop"
    /\ i <= Len(records)
    /\ Get(records[i], "hierarchy").t = "string"
    /\ warnings' = warnings \o nestingWarnings(i)
    /\ IF nestingWarnings(i) # <<>>
       THEN /\ pc' = "failed"
            /\ UNCHANGED <<dirs, matchingFiles, ops, k>>
       ELSE /\ dirs' = dirs \cup mkdirSync(fullPath(hierarchyOf(i)))
            /\ matchingFiles' = matchingFilesOf(fileMap, i)
            /\ ops' = ops \o <<[op |-> "mkdir", row |-> i],
                               [op |-> "match", row |-> i,
                                files |-> matchingFilesOf(fileMap, i)]>>
            /\ k' = 1
            /\ pc' = "copy"
    /\ UNCHANGED <<csv, records, inputDir, tree, fileMap, i, copies, sidecars, error,
                   probed, again, previous>>

\* processRecord, lines 86-162: classify, validate, create the directory and
\* find the matching files
ProcessRecord ==
    /\ pc = "loop"
    /\ i <= Len(records)
    /\ Get(records[i], "hierarchy").t = "string"
    /\ warnings' = warnings \o nestingWarnings(i)
    /\ dirs' = dirs \cup mkdirSync(fullPath(hierarchyOf(i)))
    /\ matchingFiles' = matchingFilesOf(fileMap, i)
    /\ ops' = ops \o <<[op |-> "mkdir", row |-> i],
                       [op |-> "match", row |-> i, files |-> matchingFilesOf(fileMap, i)]>>
    /\ k' = 1
    /\ pc' = "copy"
    /\ UNCHANGED <<csv, records, inputDir, tree, fileMap, i, copies, sidecars, error,
                   probed, again, previous>>

\* line 87: record.hierarchy is undefined and split throws a TypeError
ProcessRecordThrows ==
    /\ pc = "loop"
    /\ i <= Len(records)
    /\ Get(records[i], "hierarchy").t # "string"
    /\ pc' = "failed"
    /\ error' = "split"
    /\ UNCHANGED <<csv, records, inputDir, tree, fileMap, i, matchingFiles, k, dirs,
                   copies, sidecars, warnings, ops, probed, again, previous>>

\* line 111: mkdirSync throws, after the validation has reported
MkdirThrows ==
    /\ pc = "loop"
    /\ i <= Len(records)
    /\ Get(records[i], "hierarchy").t = "string"
    /\ warnings' = warnings \o nestingWarnings(i)
    /\ pc' = "failed"
    /\ error' = "mkdirSync"
    /\ UNCHANGED <<csv, records, inputDir, tree, fileMap, i, matchingFiles, k, dirs,
                   copies, sidecars, ops, probed, again, previous>>

\* lines 165-173: one turn of the copy loop
CopyFile ==
    /\ pc = "copy"
    /\ k <= Len(matchingFiles)
    /\ \E probe \in Probes(matchingFiles[k]) :
          /\ copies' = copyFileSync(copies, fullPath(hierarchyOf(i)), matchingFiles[k])
          /\ records' = [records EXCEPT ![i] = addFileMetadata(matchingFiles[k], @, probe)]
          /\ warnings' = warnings \o addFileMetadataWarnings(matchingFiles[k], probe, i)
          /\ probed' = probed \cup {[file |-> matchingFiles[k], probe |-> probe]}
          /\ ops' = Append(ops, [op |-> "copy", row |-> i, file |-> matchingFiles[k],
                                 probe |-> probe])
    /\ k' = k + 1
    /\ UNCHANGED <<csv, inputDir, tree, fileMap, pc, i, matchingFiles, dirs, sidecars,
                   error, again, previous>>

\* a copy loop that removes what it has copied for the row when copyFileSync
\* throws
CopyFileThrowsRollingBack ==
    /\ pc = "copy"
    /\ k <= Len(matchingFiles)
    /\ pc' = "failed"
    /\ error' = "copyFileSync"
    /\ copies' = {c \in copies : c.dir # fullPath(hierarchyOf(i))}
    /\ UNCHANGED <<csv, records, inputDir, tree, fileMap, i, matchingFiles, k, dirs,
                   sidecars, warnings, ops, probed, again, previous>>

\* line 168: copyFileSync throws
CopyFileThrows ==
    /\ pc = "copy"
    /\ k <= Len(matchingFiles)
    /\ pc' = "failed"
    /\ error' = "copyFileSync"
    /\ UNCHANGED <<csv, records, inputDir, tree, fileMap, i, matchingFiles, k, dirs,
                   copies, sidecars, warnings, ops, probed, again, previous>>

\* the report of lines 175-179 on the matches of row r
matchWarnings(r, files) ==
    IF Truthy(inputDir) /\ isCanvas(hierarchyOf(r)) /\ Len(files) = 0
    THEN <<[kind |-> "no matching files", row |-> r]>> ELSE <<>>

\* a processRecord that builds the document from the row as the CSV file has it
WriteInfoBeforeExtraction ==
    /\ pc = "copy"
    /\ k > Len(matchingFiles)
    /\ warnings' = warnings \o matchWarnings(i, matchingFiles)
    /\ sidecars' = writeFileSync(sidecars, fullPath(hierarchyOf(i)), createInfoYml(csv[i]))
    /\ ops' = Append(ops, [op |-> "write", row |-> i, content |-> createInfoYml(csv[i])])
    /\ i' = i + 1
    /\ pc' = "loop"
    /\ UNCHANGED <<csv, records, inputDir, tree, fileMap, matchingFiles, k, dirs, copies,
                   error, probed, again, previous>>

\* lines 175-187: the report on the matches, then the sidecar
WriteInfo ==
    /\ pc = "copy"
    /\ k > Len(matchingFiles)
    /\ warnings' = warnings \o matchWarnings(i, matchingFiles)
    /\ sidecars' = writeFileSync(sidecars, fullPath(hierarchyOf(i)), createInfoYml(records[i]))
    /\ ops' = Append(ops, [op |-> "write", row |-> i, content |-> createInfoYml(records[i])])
    /\ i' = i + 1
    /\ pc' = "loop"
    /\ UNCHANGED <<csv, records, inputDir, tree, fileMap, matchingFiles, k, dirs, copies,
                   error, probed, again, previous>>

\* line 187: writeFileSync throws, after the report on the matches
WriteInfoThrows ==
    /\ pc = "copy"
    /\ k > Len(matchingFiles)
    /\ warnings' = warnings \o matchWarnings(i, matchingFiles)
    /\ pc' = "failed"
    /\ error' = "writeFileSync"
    /\ UNCHANGED <<csv, records, inputDir, tree, fileMap, i, matchingFiles, k, dirs,
                   copies, sidecars, ops, probed, again, previous>>

\* line 51: the loop over the rows ends
Finish ==
    /\ pc = "loop"
    /\ i > Len(records)
    /\ pc' = "done"
    /\ UNCHANGED <<csv, records, inputDir, tree, fileMap, i, matchingFiles, k, dirs,
                   copies, sidecars, warnings, error, ops, probed, again, previous>>

\* main, lines 336-377, called once more with the same arguments: the CSV
\* file is parsed afresh, the output tree is as the run before left it
RunAgain ==
    /\ pc = "done"
    /\ again
    /\ again' = FALSE
    /\ previous' = <<sidecars>>
    /\ records' = csv
    /\ fileMap' = <<>>
    /\ pc' = "scan"
    /\ i' = 1
    /\ matchingFiles' = <<>>
    /\ k' = 1
    /\ warnings' = <<>>
    /\ ops' = <<>>
    /\ UNCHANGED <<csv, inputDir, tree, dirs, copies, sidecars, error, probed>>

Next ==
    \/ Scan
    \/ ScanThrows
    \/ ProcessRecord
    \/ ProcessRecordThrows
    \/ MkdirThrows
    \/ CopyFile
    \/ CopyFileThrows
    \/ WriteInfo
    \/ WriteInfoThrows
    \/ Finish
    \/ RunAgain

(***************************************************************************)
(* The inputs of the model: CSV files and input directories.               *)
(***************************************************************************)
\* the row with the given cells; an Undefined cell is a column the file lacks
RECURSIVE RowOf(_, _)
RowOf(cols, cell) ==
    IF cols = {} THEN <<>>
    ELSE LET c == CHOOSE x \in cols : TRUE
             rest == RowOf(cols \ {c}, cell)
         IN IF cell[c] = Undefined THEN rest ELSE Set(rest, c, cell[c])

\* a row with the given hierarchy and label and nothing else
Row(h, label) ==
    RowOf({"hierarchy", "label"}, [c \in {"hierarchy", "label"} |-> IF c = "label" THEN label ELSE h])

t_root == <<"r", "o", "o", "t">>
t_photos == <<"p", "h", "o", "t", "o", "s">>
t_manifest1 == <<"m", "a", "n", "i", "f", "e", "s", "t", "1">>
t_manifest2 == <<"m", "a", "n", "i", "f", "e", "s", "t", "2">>
t_canvas1 == <<"c", "a", "n", "v", "a", "s", "1">>
t_canvas2 == <<"c", "a", "n", "v", "a", "s", "2">>
t_canvas9 == <<"c", "a", "n", "v", "a", "s", "9">>
t_canvas10 == <<"c", "a", "n", "v", "a", "s", "1", "0">>
t__canvas1 == <<"_", "c", "a", "n", "v", "a", "s", "1">>
t_canvasmanifest1 == <<"c", "a", "n", "v", "a", "s", "m", "a", "n", "i", "f", "e", "s", "t", "1">>
t_title == <<"T", "i", "t", "l", "e">>
t_in == <<"i", "n">>

\* the segments the generated hierarchies are made of
Segments ==
    {t_root, s_audio, t_manifest1, t_canvas1, t__canvas1, t_canvasmanifest1, <<>>, s_dotdot}

RECURSIVE joinSlash(_)
joinSlash(segs) ==
    IF Len(segs) = 1 THEN segs[1] ELSE segs[1] \o <<"/">> \o joinSlash(Tail(segs))

GeneratedHierarchies ==
    {joinSlash(segs) : segs \in UNION {[1..n -> Segments] : n \in 1..MaxDepth}}

\* the hierarchies of the README and of the specification
ReadmeHierarchies ==
    {joinSlash(<<t_root, t_photos>>),
     joinSlash(<<t_root, t_photos, t_manifest1>>),
     joinSlash(<<t_root, t_photos, t_manifest1, t_canvas1>>),
     joinSlash(<<t_root, t_photos, t_manifest1, t_canvas2>>),
     joinSlash(<<t_root, t_photos, t_manifest1, t__canvas1>>),
     joinSlash(<<t_root, s_audio, t_manifest2>>),
     joinSlash(<<t_root, s_audio, t_manifest2, t_canvas1>>),
     joinSlash(<<t_root, s_audio, t_manifest2, t_canvas2>>),
     joinSlash(<<t_root, t_manifest1, t_photos>>),
     joinSlash(<<t_root, t_manifest1, t_manifest2>>),
     joinSlash(<<s_audio, t_canvas9>>)}

File(dir, base) == [dir |-> dir, base |-> base]

\* an input directory with audio parts, photographs, and files glob ignores
StandardTree ==
    <<File("in/audio", <<"P", "a", "r", "t", "0", "9", ".", "m", "p", "3">>),
      File("in/audio", <<"P", "a", "r", "t", "9", "-", "1", ".", "m", "p", "3">>),
      File("in/audio", <<"P", "a", "r", "t", "1", "0", ".", "m", "p", "3">>),
      File("in/audio", <<"p", "a", "r", "t", "0", "1", ".", "m", "p", "3">>),
      File("in/audio", <<"P", "a", "r", "t", "0", "2", ".", "m", "p", "3">>),
      File("in/photos", <<"B", "H", "C", "0", "0", "1", "_", "A", "F", "_", "0", "1", ".", "J", "P", "G">>),
      File("in/photos", <<"B", "H", "C", "0", "0", "1", "_", "A", "F", "_", "0", "1", "0", ".", "J", "P", "G">>),
      File("in/photos", s_info_yml),
      File("in/photos", <<"t", "h", "u", "m", "b", ".", "j", "p", "g">>),
      File("in/scans", <<"B", "H", "C", "0", "0", "1", "_", "A", "F", "_", "0", "1", ".", "J", "P", "G">>)>>

\* the state before csvToHierarchy's first step; more: the command will be
\* run a second time
StartOf(rows, dir, files, more) ==
    /\ csv = rows
    /\ records = rows
    /\ inputDir = dir
    /\ tree = files
    /\ fileMap = <<>>
    /\ pc = "scan"
    /\ i = 1
    /\ matchingFiles = <<>>
    /\ k = 1
    /\ dirs = {}
    /\ copies = {}
    /\ sidecars = {}
    /\ warnings = <<>>
    /\ error = "none"
    /\ ops = <<>>
    /\ probed = {}
    /\ again = more
    /\ previous = <<>>

Start(rows, dir, files) == StartOf(rows, dir, files, FALSE)

\* canvas segments in which the marker is followed by more than digits
t_canvas == <<"c", "a", "n", "v", "a", "s">>
t_canvasx1 == <<"c", "a", "n", "v", "a", "s", "x", "1">>
t_canvas1x0 == <<"c", "a", "n", "v", "a", "s", "1", "x", "0">>
t_canvas01 == <<"c", "a", "n", "v", "a", "s", "0", "1">>

MarkerHierarchies ==
    {joinSlash(<<t_manifest1, seg>>) : seg \in {t_canvas, t_canvasx1, t_canvas1x0, t_canvas01}}

\* one row of any generated hierarchy, with and without an input directory
InitPaths ==
    \E h \in GeneratedHierarchies \cup ReadmeHierarchies \cup MarkerHierarchies, dir \in {Undefined, Str(t_in)} :
        Start(<<Row(Str(h), Str(t_title))>>, dir, StandardTree)

\* one row whose hierarchy, label and technical fields are set, empty or absent
FieldValues == {Undefined, Str(<<>>), Str(<<"0">>), Str(<<"5">>)}

InitFields ==
    \E h \in {Undefined, Str(<<>>), Str(t_root),
              Str(joinSlash(<<t_root, t_photos, t_manifest1, t_canvas1>>)),
              Str(joinSlash(<<s_audio, t_canvas9>>))},
       label \in {Undefined, Str(<<>>), Str(t_title)},
       w \in FieldValues, ht \in FieldValues, d \in FieldValues :
        Start(<<RowOf({"hierarchy", "label", "width", "height", "duration"},
                      [c \in {"hierarchy", "label", "width", "height", "duration"} |->
                          CASE c = "hierarchy" -> h
                            [] c = "label" -> label
                            [] c = "width" -> w
                            [] c = "height" -> ht
                            [] OTHER -> d])>>,
              Str(t_in), StandardTree)

\* one canvas row and an input directory that holds one file with a
\* generated name
DigitStrings == UNION {[1..n -> {"0", "1"}] : n \in 1..MaxDigits}

AudioNames ==
    {pre \o tok \o d \o dash \o ext :
        pre \in {<<>>, <<"x", "_">>},
        tok \in {<<"p", "a", "r", "t">>, <<"P", "a", "r", "t">>, <<"p", "r", "t">>},
        d \in DigitStrings \cup {<<>>},
        dash \in {<<>>, <<"-", "1">>, <<"-">>, <<"-", "x">>},
        ext \in {<<".", "m", "p", "3">>, <<".", "M", "P", "3">>, <<".", "m", "p", "4">>, <<>>}}

ImageNames ==
    {stem \o sep \o d \o ext :
        stem \in {<<"A", "F">>, <<>>},
        sep \in {<<"_">>, <<"-">>, <<"_", "x">>},
        d \in DigitStrings \cup {<<>>},
        ext \in {<<".", "j", "p", "g">>, <<".", "J", "P", "G">>, <<".", "j", "p", "e", "g">>,
                 <<".", "p", "n", "g">>, <<".", "j", "p", "g", ".", "b", "a", "k">>, <<>>}}

InitMatch ==
    \E name \in AudioNames \cup ImageNames,
       h \in {joinSlash(<<s_audio, t_canvas1>>), joinSlash(<<s_audio, t_canvas10>>),
              joinSlash(<<t_manifest1, t_canvas1>>), joinSlash(<<t_manifest1, t_canvas10>>)} :
        Start(<<Row(Str(h), Str(t_title))>>, Str(t_in), <<File("in", name)>>)

\* one row with one compound group whose sub-keys are set, empty or absent,
\* the other groups being all complete or all absent
GroupTable ==
    <<[name |-> "requiredStatement",
       keys |-> <<"requiredStatement.label", "requiredStatement.value">>,
       subs |-> <<"label", "value">>],
      [name |-> "provider",
       keys |-> <<"provider.id", "provider.type", "provider.label">>,
       subs |-> <<"id", "type", "label">>],
      [name |-> "homepage",
       keys |-> <<"homepage.id", "homepage.type", "homepage.label">>,
       subs |-> <<"id", "type", "label">>],
      [name |-> "seeAlso",
       keys |-> <<"seeAlso.id", "seeAlso.type", "seeAlso.label">>,
       subs |-> <<"id", "type", "label">>],
      [name |-> "rendering",
       keys |-> <<"rendering.id", "rendering.type", "rendering.label">>,
       subs |-> <<"id", "type", "label">>],
      [name |-> "start",
       keys |-> <<"start.id", "start.type", "start.label">>,
       subs |-> <<"id", "type", "label">>],
      [name |-> "supplementary",
       keys |-> <<"supplementary.id", "supplementary.type", "supplementary.label">>,
       subs |-> <<"id", "type", "label">>],
      [name |-> "services",
       keys |-> <<"services.id", "services.type", "services.profile">>,
       subs |-> <<"id", "type", "profile">>]>>

GroupColumnSet == {GroupColumns[c] : c \in DOMAIN GroupColumns}

\* the value of sub-key j of the group under test: absent, empty, or a
\* string that names j
SubValue(choice, j) ==
    CASE choice = "absent" -> Undefined
      [] choice = "empty" -> Str(<<>>)
      [] OTHER -> Str(<<"v", DigitChars[j + 1]>>)

GroupRow(g, choices, others) ==
    RowOf(ColumnSet,
          [c \in ColumnSet |->
              IF c = "hierarchy" THEN Str(t_root)
              ELSE IF c = "label" THEN Str(t_title)
              ELSE IF \E j \in DOMAIN GroupTable[g].keys : GroupTable[g].keys[j] = c
                   THEN SubValue(choices[CHOOSE j \in DOMAIN GroupTable[g].keys :
                                             GroupTable[g].keys[j] = c],
                                 CHOOSE j \in DOMAIN GroupTable[g].keys : GroupTable[g].keys[j] = c)
                   ELSE IF others /\ c \in GroupColumnSet THEN Str(<<"x">>) ELSE Undefined])

InitGroups ==
    \E g \in DOMAIN GroupTable, others \in BOOLEAN :
        \E choices \in [DOMAIN GroupTable[g].keys -> {"absent", "empty", "set"}] :
            Start(<<GroupRow(g, choices, others)>>, Undefined, <<>>)

\* a CSV file of up to MaxRows rows, run twice over the same output tree
RunTree ==
    <<File("in/photos", <<"A", "_", "0", "1", ".", "j", "p", "g">>),
      File("in/scans", <<"B", "_", "0", "1", ".", "j", "p", "e", "g">>),
      File("in/audio", <<"p", "a", "r", "t", "0", "1", ".", "m", "p", "3">>)>>

RunRows ==
    {Row(Str(joinSlash(<<t_manifest1, t_canvas1>>)), Str(t_title)),
     Row(Str(joinSlash(<<t_manifest2, t_canvas1>>)), Str(t_title)),
     Row(Str(joinSlash(<<s_audio, t_canvas1>>)), Str(t_title)),
     Row(Str(joinSlash(<<t_manifest1, t_canvas9>>)), Str(t_title)),
     Row(Undefined, Str(t_title))}

InitRun ==
    \E rows \in UNION {[1..n -> RunRows] : n \in 1..MaxRows} :
        StartOf(rows, Str(t_in), RunTree, TRUE)

Init == InitPaths \/ InitFields \/ InitMatch \/ InitGroups \/ InitRun

Spec == Init /\ [][Next]_vars

(***************************************************************************)
(* Properties.                                                             *)
(***************************************************************************)
\* processRecord has classified row r and created its directory
Begun(r) == r < i \/ (r = i /\ pc = "copy")

\* the last segment of a sequence of segments
Last(segs) == segs[Len(segs)]

\* C1: for every hierarchy whose last segment starts with `canvas`, the
\* directory processRecord creates ends in `_` followed by that segment, so
\* that dropping the first character gives the segment back; every other
\* segment is handed to path.join as the hierarchy has it, and a hierarchy
\* without empty, `.` or `..` segments names its directory segment by segment.
C1_CanvasMarkerRoundTrip ==
    \A r \in DOMAIN csv :
        Begun(r) =>
            LET h == hierarchyOf(r)
                orig == splitHierarchy(h)
                dir == fullPath(h)
                canvas == startsWith(Last(orig), s_canvas)
                used == SubSeq(dir, Len(dir) - Len(orig) + 1, Len(dir))
                plain == \A j \in DOMAIN orig : orig[j] \notin {<<>>, s_dot, s_dotdot}
            IN /\ canvas =>
                    /\ dir # <<>> /\ dir \in dirs
                    /\ Last(dir) = <<"_">> \o Last(orig)
                    /\ Tail(Last(dir)) = Last(orig)
               /\ Len(parts(h)) = Len(orig)
               /\ \A j \in 1..(Len(orig) - 1) : parts(h)[j] = orig[j]
               /\ ~canvas => Last(parts(h)) = Last(orig)
               /\ plain =>
                    /\ dir \in dirs
                    /\ Len(dir) = Len(outputDir) + Len(orig)
                    /\ \A j \in 1..(Len(orig) - 1) : used[j] = orig[j]
                    /\ ~canvas => Last(used) = Last(orig)

\* a canvas row below two other segments has its directory
C1_Witness ==
    \E r \in DOMAIN csv :
        /\ Begun(r)
        /\ Len(splitHierarchy(hierarchyOf(r))) = 3
        /\ startsWith(Last(splitHierarchy(hierarchyOf(r))), s_canvas)
        /\ fullPath(hierarchyOf(r)) \in dirs

\* the technical fields of a row
TechnicalFields == {"width", "height", "duration"}

\* a field the CSV file sets: a string that is not empty
ExplicitlySet(v) == v.t = "string" /\ v.s # <<>>

\* C2: a width, height or duration that the CSV file sets keeps its value
\* whatever files are matched and whatever the probes answer; only a field
\* that was not set is ever assigned.
C2_ExplicitFieldsKept ==
    \A r \in DOMAIN csv : \A f \in TechnicalFields :
        /\ ExplicitlySet(Get(csv[r], f)) => Get(records[r], f) = Get(csv[r], f)
        /\ Get(records[r], f) # Get(csv[r], f) => ~ExplicitlySet(Get(csv[r], f))

\* a probe has answered for a row with an explicit width: the height was
\* extracted, the width was kept
C2_Witness ==
    \E r \in DOMAIN csv :
        /\ ExplicitlySet(Get(csv[r], "width"))
        /\ ~ExplicitlySet(Get(csv[r], "height"))
        /\ Get(records[r], "height") = Num(480)
        /\ k > 1

\* row i is a canvas row whose files have been looked for
Matched == pc = "copy" /\ Truthy(inputDir) /\ isCanvas(hierarchyOf(i))

\* the positions a..b of s hold digits only
AllDigits(s, a, b) == a <= b /\ \A j \in a..b : IsDigit(s[j])

\* the name holds `part` in any case, a run of digits whose value is n,
\* optionally a dash and digits, and then .mp3 in any case, at its end
AudioPattern(name, n) ==
    LET s == toLowerCase(name)
    IN \E a \in DOMAIN s : \E b \in DOMAIN s :
          /\ HasAt(s, s_part, a)
          /\ AllDigits(s, a + Len(s_part), b)
          /\ DecimalValue(SubSeq(s, a + Len(s_part), b)) = n
          /\ \/ From(s, b + 1) = s_mp3
             \/ \E c \in DOMAIN s :
                   /\ b + 1 <= Len(s) /\ s[b + 1] = "-"
                   /\ AllDigits(s, b + 2, c)
                   /\ From(s, c + 1) = s_mp3

\* C3: for an audio canvas of index n the matched files are exactly those
\* whose extension is .mp3 and whose name holds `part`, digits of value n,
\* optionally a dash and digits, then .mp3; for n = 9 and Part09.mp3,
\* Part9-1.mp3, Part10.mp3 the first two are matched.
C3_AudioMatching ==
    (Matched /\ isAudio(hierarchyOf(i)) /\ canvasIndex(hierarchyOf(i)).t = "number") =>
        LET n == canvasIndex(hierarchyOf(i)).n
            Expected(file) ==
                /\ toLowerCase(extname(file)) = s_mp3
                /\ AudioPattern(basename(file), n)
        IN /\ matchingFiles = SelectSeq(flat(fileMap), Expected)
           /\ (n = 9 /\ tree = StandardTree) =>
                 matchingFiles = <<StandardTree[1], StandardTree[2]>>

\* the audio canvas 9 has Part09.mp3 and Part9-1.mp3
C3_Witness ==
    /\ Matched /\ isAudio(hierarchyOf(i))
    /\ canvasIndex(hierarchyOf(i)) = Num(9)
    /\ Len(matchingFiles) = 2

\* the name ends with an underscore, a run of digits whose value is n, and
\* the extension
ImagePattern(name, ext, n) ==
    LET s == toLowerCase(name)
    IN \E a \in DOMAIN s : \E b \in DOMAIN s :
          /\ s[a] = "_"
          /\ AllDigits(s, a + 1, b)
          /\ DecimalValue(SubSeq(s, a + 1, b)) = n
          /\ From(s, b + 1) = ext

\* C4: for an image canvas of index n the matched files are exactly those
\* whose extension is .jpg or .jpeg in any case and whose name ends with an
\* underscore, digits of value n and the extension; for n = 1,
\* BHC001_AF_01.JPG is matched and BHC001_AF_010.JPG is not.
C4_ImageMatching ==
    (Matched /\ ~isAudio(hierarchyOf(i)) /\ canvasIndex(hierarchyOf(i)).t = "number") =>
        LET n == canvasIndex(hierarchyOf(i)).n
            Expected(file) ==
                /\ toLowerCase(extname(file)) \in {s_jpg, s_jpeg}
                /\ ImagePattern(basename(file), toLowerCase(extname(file)), n)
        IN /\ matchingFiles = SelectSeq(flat(fileMap), Expected)
           /\ (n = 1 /\ tree = StandardTree) =>
                 matchingFiles = <<StandardTree[6], StandardTree[10]>>

\* the image canvas 1 has the two BHC001_AF_01.JPG and not BHC001_AF_010.JPG
C4_Witness ==
    /\ Matched /\ ~isAudio(hierarchyOf(i))
    /\ canvasIndex(hierarchyOf(i)) = Num(1)
    /\ tree = StandardTree
    /\ Len(matchingFiles) = 2

\* a warning has been reported for row r
Warned(r) == \E w \in DOMAIN warnings : warnings[w].row = r

\* a warning of the given kind has been reported for row r
WarnedOf(r, kind) ==
    \E w \in DOMAIN warnings : warnings[w].row = r /\ warnings[w].kind = kind

NestingKinds == {"canvas must be inside a manifest", "manifest inside another manifest"}

\* a nesting warning has been reported for row r
NestingWarned(r) == \E kind \in NestingKinds : WarnedOf(r, kind)

\* the copied file of that name in the directory of row r
Copied(r, name) ==
    \E c \in copies : c.dir = fullPath(hierarchyOf(r)) /\ c.name = name

\* the directory of row r holds an info.yml
HasSidecar(r) == \E c \in sidecars : c.dir = fullPath(hierarchyOf(r))

h_audio_manifest2_canvas1 == joinSlash(<<t_root, s_audio, t_manifest2, t_canvas1>>)
h_audio_manifest2_canvas2 == joinSlash(<<t_root, s_audio, t_manifest2, t_canvas2>>)

\* C5: with the README's layout root/audio/manifest2/canvas1 and an input
\* directory that holds part01.mp3 and Part02.mp3, part01.mp3 is copied into
\* the directory of canvas1 and Part02.mp3 into that of canvas2.
C5_ReadmeAudioMatched ==
    \A r \in DOMAIN csv :
        (r < i /\ Truthy(inputDir) /\ tree = StandardTree) =>
            /\ hierarchyOf(r) = h_audio_manifest2_canvas1 =>
                  Copied(r, basename(StandardTree[4]))
            /\ hierarchyOf(r) = h_audio_manifest2_canvas2 =>
                  Copied(r, basename(StandardTree[5]))

\* C6: for a canvas row the canvas nesting warning is reported exactly when
\* the row has no parent segment or its parent segment does not contain
\* `manifest`.
C6_CanvasWarningIff ==
    \A r \in DOMAIN csv :
        (Begun(r) /\ startsWith(Last(splitHierarchy(hierarchyOf(r))), s_canvas)) =>
            LET orig == splitHierarchy(hierarchyOf(r))
                outside == Len(orig) = 1 \/ ~includes(orig[Len(orig) - 1], s_manifest)
            IN WarnedOf(r, "canvas must be inside a manifest") <=> outside

h_root__canvas1 == joinSlash(<<t_root, t__canvas1>>)
h_root_canvas1 == joinSlash(<<t_root, t_canvas1>>)
h_manifest1__canvas1 == joinSlash(<<t_root, t_photos, t_manifest1, t__canvas1>>)
h_manifest1_canvas1 == joinSlash(<<t_root, t_photos, t_manifest1, t_canvas1>>)

\* C7, as claimed: the row root/_canvas1 is warned about and still gets its
\* directory and its info.yml; the row root/photos/manifest1/_canvas1 is not
\* warned about.
C7_UnderscoreRowWarned ==
    \A r \in DOMAIN csv :
        r < i =>
            /\ hierarchyOf(r) = h_root__canvas1 =>
                  Warned(r) /\ fullPath(hierarchyOf(r)) \in dirs /\ HasSidecar(r)
            /\ hierarchyOf(r) = h_manifest1__canvas1 => ~Warned(r)

\* C7, amended: the row root/canvas1, whose directory is root/_canvas1, is
\* warned about and still gets that directory and its info.yml; the row
\* root/photos/manifest1/canvas1, whose directory is
\* root/photos/manifest1/_canvas1, gets no nesting warning, and neither does
\* the row root/_canvas1, which is no canvas row.
C7_CanvasRowWarned ==
    \A r \in DOMAIN csv :
        r < i =>
            /\ hierarchyOf(r) = h_root_canvas1 =>
                  /\ WarnedOf(r, "canvas must be inside a manifest")
                  /\ outputDir \o <<t_root, t__canvas1>> \in dirs
                  /\ \E c \in sidecars : c.dir = outputDir \o <<t_root, t__canvas1>>
            /\ hierarchyOf(r) = h_manifest1_canvas1 =>
                  /\ ~NestingWarned(r)
                  /\ outputDir \o <<t_root, t_photos, t_manifest1, t__canvas1>> \in dirs
            /\ hierarchyOf(r) \in {h_root__canvas1, h_manifest1__canvas1} => ~Warned(r)

\* the rows root/canvas1 and root/_canvas1 have been processed
C7_Witness ==
    \E r \in DOMAIN csv :
        /\ r < i
        /\ hierarchyOf(r) = h_root_canvas1
        /\ WarnedOf(r, "canvas must be inside a manifest")
        /\ HasSidecar(r)

\* C8: a row whose parent segment contains `manifest` and whose last segment
\* is no canvas, be it a manifest or a plain collection, gets a nesting
\* warning.
C8_ManifestHoldsOnlyCanvases ==
    \A r \in DOMAIN csv :
        Begun(r) =>
            LET orig == splitHierarchy(hierarchyOf(r))
            IN (/\ Len(orig) > 1
                /\ includes(orig[Len(orig) - 1], s_manifest)
                /\ ~startsWith(Last(orig), s_canvas)) => NestingWarned(r)

\* C9: a row whose label is absent or empty is warned about while it is
\* processed, and a row whose hierarchy is absent is warned about and does
\* not end the run.
C9_MissingFieldsWarned ==
    \A r \in DOMAIN csv :
        /\ (r < i /\ ~Truthy(Get(csv[r], "label"))) => Warned(r)
        /\ (r <= i /\ Get(csv[r], "hierarchy") = Undefined) => pc # "failed"

\* the content of the info.yml of row r
SidecarOf(r) == (CHOOSE c \in sidecars : c.dir = fullPath(hierarchyOf(r))).content

\* the entries of a document that have the key
EntriesOf(doc, key) == {e \in DOMAIN doc : doc[e].key = key}

\* C10: the info.yml of a row holds a compound group exactly when every
\* sub-key of the group is set and not empty on the row; the group then is
\* the map of its sub-keys to the row's values, and a partial group leaves
\* no key in the document.
C10_GroupsAllOrNothing ==
    (pc \in {"loop", "done"} /\ i > 1) =>
        LET r == i - 1
            doc == SidecarOf(r)
        IN \A g \in DOMAIN GroupTable :
              LET grp == GroupTable[g]
                  complete == \A j \in DOMAIN grp.keys : ExplicitlySet(Get(csv[r], grp.keys[j]))
                  found == EntriesOf(doc, grp.name)
              IN /\ complete <=> found # {}
                 /\ Cardinality(found) <= 1
                 /\ \A e \in found :
                       doc[e].value =
                           Map([j \in DOMAIN grp.keys |-> Entry(grp.subs[j], Get(csv[r], grp.keys[j]))])
                 /\ \A e \in DOMAIN doc : \A j \in DOMAIN grp.keys : doc[e].key # grp.keys[j]

\* a row with provider.id and provider.type but no provider.label, the other
\* groups being complete, has its info.yml: services is in it
C10_Witness ==
    /\ pc \in {"loop", "done"} /\ i > 1
    /\ ExplicitlySet(Get(csv[i - 1], "provider.id"))
    /\ ExplicitlySet(Get(csv[i - 1], "provider.type"))
    /\ Get(csv[i - 1], "provider.label") = Undefined
    /\ EntriesOf(SidecarOf(i - 1), "services") # {}

\* the copies of this run for row r, in order, each with what its probe answered
Probings(r) == SelectSeq(ops, LAMBDA e : e.op = "copy" /\ e.row = r)

\* those of them whose probe answered a number for field f
Answers(r, f) == SelectSeq(Probings(r), LAMBDA e : e.probe[f].t = "number")

\* the info.yml files this run has written, as positions of ops
Writes == {w \in DOMAIN ops : ops[w].op = "write"}

\* C11: when a row leaves width, height or duration unset and the probe of a
\* matching file answers a value for the field, the info.yml written for the
\* row holds the field with the value the first such probe answered; and a
\* second run of the command on the same CSV file, input directory and output
\* directory, the probes answering as before, leaves every info.yml as the
\* first run left it.
C11_ProbedFieldsWrittenRerunIdentical ==
    /\ \A w \in Writes : \A f \in TechnicalFields :
          (~Truthy(Get(csv[ops[w].row], f)) /\ Answers(ops[w].row, f) # <<>>)
              => \E e \in DOMAIN ops[w].content :
                    ops[w].content[e] = Entry(f, Head(Answers(ops[w].row, f)).probe[f])
    /\ (pc = "done" /\ previous # <<>>) => sidecars = previous[1]

C11_Witness ==
    /\ pc = "done"
    /\ previous # <<>>
    /\ previous[1] # {}
    /\ \E w \in Writes :
          /\ ~Truthy(Get(csv[ops[w].row], "width"))
          /\ Len(Answers(ops[w].row, "width")) = 2
          /\ Answers(ops[w].row, "width")[1].probe # Answers(ops[w].row, "width")[2].probe
          /\ \E e \in DOMAIN ops[w].content : ops[w].content[e].key = "width"

\* the matching files this run found for the rows it has finished, as
\* positions of ops
FinishedMatches == {m \in DOMAIN ops : ops[m].op = "match" /\ ops[m].row < i}

\* C12: when several files match a canvas, every one of them is kept: once
\* the row is processed its directory holds, for each matching file, a file
\* of that name that is the copy of that file.
C12_EveryMatchKept ==
    \A m \in FinishedMatches : \A f \in DOMAIN ops[m].files :
        [dir |-> fullPath(hierarchyOf(ops[m].row)),
         name |-> basename(ops[m].files[f]),
         source |-> ops[m].files[f]] \in copies

\* the info.yml this run wrote for row r, as positions of ops
WritesOf(r) == {w \in Writes : ops[w].row = r}

\* C13: a warning never ends the run.  The run ends early only when a call
\* has thrown; for every row that got a warning (a nesting rule, no matching
\* file, a failed probe) the directory is created unless mkdirSync itself
\* threw, and once the row is passed its info.yml is written, without the
\* technical fields that neither the CSV file nor a probe gave; at the end of
\* the run every row after it has its info.yml too.
C13_WarningsDoNotStop ==
    /\ pc = "failed" => error # "none"
    /\ \A r \in DOMAIN csv : Warned(r) =>
          /\ (r < i \/ error # "mkdirSync") => fullPath(hierarchyOf(r)) \in dirs
          /\ r < i =>
                /\ HasSidecar(r)
                /\ \A w \in WritesOf(r) : \A f \in TechnicalFields :
                      (~Truthy(Get(csv[r], f)) /\ Answers(r, f) = <<>>)
                          => EntriesOf(ops[w].content, f) = {}
                /\ WritesOf(r) # {}
          /\ pc = "done" => \A later \in (r + 1)..Len(csv) :
                                WritesOf(later) # {} /\ HasSidecar(later)

C13_Witness ==
    /\ pc = "done"
    /\ Len(csv) = 2
    /\ WarnedOf(1, "canvas must be inside a manifest")
    /\ WarnedOf(1, "media probe failed")
    /\ WarnedOf(2, "no matching files")
    /\ EntriesOf(SidecarOf(1), "duration") = {}
    /\ HasSidecar(2)

\* C14: a copyFileSync that throws does not end the run: when the run is
\* over, the row whose file could not be copied and every row after it have
\* their info.yml, and the other matching files of the row are copied.
C14_CopyFailureNotFatal ==
    (error = "copyFileSync" /\ pc \in {"done", "failed"}) =>
        /\ \A r \in i..Len(csv) : WritesOf(r) # {}
        /\ \A f \in (k + 1)..Len(matchingFiles) : Copied(i, basename(matchingFiles[f]))

\* the rows whose directory this run has created when a call of row i threw
Reached == 1..(IF error \in {"split", "mkdirSync"} THEN i - 1 ELSE i)

\* the run has ended on a call that threw while row i was processed
FailedAtRow == pc = "failed" /\ error \in {"split", "mkdirSync", "copyFileSync", "writeFileSync"}

\* what is on disk when the run has failed at row i
C15_OutputAtFailure ==
    FailedAtRow =>
        /\ \A e \in DOMAIN ops : ops[e].op # "scan" => ops[e].row \in Reached
        /\ WritesOf(i) = {}
        /\ \A r \in 1..(i - 1) :
              /\ mkdirSync(fullPath(hierarchyOf(r))) \subseteq dirs
              /\ WritesOf(r) # {}
              /\ HasSidecar(r)
        /\ \A r \in Reached : mkdirSync(fullPath(hierarchyOf(r))) \subseteq dirs
        /\ error \in {"copyFileSync", "writeFileSync"} =>
              \A f \in 1..(k - 1) : Copied(i, basename(matchingFiles[f]))
        /\ previous = <<>> =>
              /\ \A d \in dirs : \E r \in Reached : d \in mkdirSync(fullPath(hierarchyOf(r)))
              /\ \A c \in copies : \E r \in Reached : c.dir = fullPath(hierarchyOf(r))
              /\ \A c \in sidecars : \E r \in 1..(i - 1) : c.dir = fullPath(hierarchyOf(r))

\* C15: when a call throws while row k is processed the run ends there.  The
\* step that throws leaves the output tree as it is and no step follows it:
\* nothing is created, copied or written for a row after k, the directories
\* and info.yml files of the rows before k and the directory and the copies
\* made so far of row k are on disk.
C15_AbortKeepsOutput ==
    /\ []C15_OutputAtFailure
    /\ [][/\ pc # "failed"
          /\ pc' = "failed" => UNCHANGED <<dirs, copies, sidecars>>]_vars

C15_Witness ==
    /\ pc = "failed"
    /\ error = "copyFileSync"
    /\ Len(csv) = 2
    /\ i = 1
    /\ k = 2
    /\ previous = <<>>
    /\ Copied(1, basename(matchingFiles[1]))
    /\ \A e \in DOMAIN ops : ops[e].op # "scan" => ops[e].row = 1

\* C16: a last segment has one role only, Canvas before Manifest: a row whose
\* last segment starts with `canvas` is never reported by the rule on a
\* manifest inside another manifest, also when the segment contains
\* `manifest`.
C16_CanvasNeverReportedAsManifest ==
    \A r \in DOMAIN csv :
        WarnedOf(r, "manifest inside another manifest") => ~isCanvas(hierarchyOf(r))

AfterMarker(seg) ==
    LET n == CHOOSE m \in 0..Len(seg) :
                 /\ \A j \in 1..m : seg[j] \in {"_", "c", "a", "n", "v", "s"}
                 /\ m < Len(seg) => seg[m + 1] \notin {"_", "c", "a", "n", "v", "s"}
    IN SubSeq(seg, n + 1, Len(seg))

\* the digits a string starts with
LeadingDigits(s) ==
    LET n == CHOOSE m \in 0..Len(s) :
                 /\ \A j \in 1..m : IsDigit(s[j])
                 /\ m < Len(s) => ~IsDigit(s[m + 1])
    IN SubSeq(s, 1, n)

Rank(e) == CASE e.op = "mkdir" -> 1 [] e.op = "match" -> 2 [] e.op = "copy" -> 3 [] OTHER -> 4

\* the operations of the rows, as positions of ops
RowOps == {e \in DOMAIN ops : ops[e].op # "scan"}

\* the files copied for row r in this run, in the order of the copies
CopiedFiles(r) == [c \in DOMAIN Probings(r) |-> Probings(r)[c].file]

\* the order of what a run has done
C18_OrderOfOperations ==
    /\ (pc \notin {"scan"} /\ error # "glob") =>
          /\ ops # <<>> /\ ops[1].op = "scan"
          /\ fileMap = IF Truthy(inputDir) THEN scanInputDirectory(tree) ELSE <<>>
    /\ \A a \in RowOps, b \in RowOps : a < b =>
          /\ ops[a].row <= ops[b].row
          /\ ops[a].row = ops[b].row =>
                (Rank(ops[a]) < Rank(ops[b]) \/ (ops[a].op = "copy" /\ ops[b].op = "copy"))
    /\ \A b \in RowOps : ops[b].row > 1 =>
          \E a \in 1..(b - 1) : ops[a].op = "write" /\ ops[a].row = ops[b].row - 1
    /\ \A b \in RowOps : ops[b].op = "copy" =>
          /\ fullPath(hierarchyOf(ops[b].row)) \in dirs
          /\ \E a \in 1..(b - 1) : ops[a].op = "mkdir" /\ ops[a].row = ops[b].row
    /\ \A w \in Writes :
          /\ \E m \in 1..(w - 1) :
                /\ ops[m].op = "match" /\ ops[m].row = ops[w].row
                /\ CopiedFiles(ops[w].row) = ops[m].files
          /\ ops[w].content = createInfoYml(records[ops[w].row])

\* C18: the run is sequential.  The file map is complete before the first row
\* is processed and does not change while the rows are processed; the rows
\* are processed one at a time in the order of the CSV file; for each row the
\* directory is created before a file is copied into it, every matching file
\* is copied and probed before the info.yml is written, the info.yml is made
\* from the row as the probes have changed it, and it is written before
\* anything is done for the next row.
C18_SequentialInOrder ==
    /\ []C18_OrderOfOperations
    /\ [][(pc # "scan" /\ pc' # "scan") => fileMap' = fileMap]_vars

C18_Witness ==
    /\ pc = "done"
    /\ Len(csv) = 2
    /\ previous = <<>>
    /\ \A r \in 1..2 : Len(Probings(r)) >= 1 /\ WritesOf(r) # {}
    /\ records[1] # csv[1]
    /\ EntriesOf(SidecarOf(1), "width") # {}
    /\ fileMap # <<>>

\* the searches for matching files this run has made for canvas rows, as
\* positions of ops
Searches ==
    {m \in DOMAIN ops : /\ ops[m].op = "match"
                        /\ Truthy(inputDir)
                        /\ isCanvas(hierarchyOf(ops[m].row))}

\* the files the search of position m has matched
MatchedSet(m) == {ops[m].files[j] : j \in DOMAIN ops[m].files}

\* the files under the input directory that the scan does not leave out
Candidates == {tree[j] : j \in {n \in DOMAIN tree : ~ignored(tree[n])}}

\* the name of the file fits a canvas of that kind and index
NameFits(file, audio, n) ==
    IF audio
    THEN toLowerCase(extname(file)) = s_mp3 /\ AudioPattern(basename(file), n)
    ELSE /\ toLowerCase(extname(file)) \in {s_jpg, s_jpeg}
         /\ ImagePattern(basename(file), toLowerCase(extname(file)), n)

\* C19: the files a canvas is matched against are all the files of all the
\* buckets of the file map.  When the search of a row has been made, a file of any directory under the input
\* directory is matched exactly when its name fits the kind and the index of
\* the canvas, two files of the same name in different directories are
\* matched together or not at all, and two canvases of the same kind and
\* index, whatever their manifests, get the same matching files.
C19_PoolIsEveryBucket ==
    /\ \A m \in Searches \cap {Len(ops)} :
          LET h == hierarchyOf(ops[m].row)
          IN /\ MatchedSet(m) \subseteq Candidates
             /\ canvasIndex(h).t = "number" =>
                   \A f \in Candidates :
                       f \in MatchedSet(m) <=> NameFits(f, isAudio(h), canvasIndex(h).n)
             /\ \A f \in Candidates, g \in Candidates :
                   basename(f) = basename(g) => (f \in MatchedSet(m) <=> g \in MatchedSet(m))
    /\ \A m1 \in Searches, m2 \in Searches :
          LET h1 == hierarchyOf(ops[m1].row)
              h2 == hierarchyOf(ops[m2].row)
          IN (isAudio(h1) = isAudio(h2) /\ canvasIndex(h1) = canvasIndex(h2))
                 => ops[m1].files = ops[m2].files

C19_Witness ==
    /\ pc = "done"
    /\ Len(csv) = 2
    /\ hierarchyOf(1) = joinSlash(<<t_manifest1, t_canvas1>>)
    /\ hierarchyOf(2) = joinSlash(<<t_manifest2, t_canvas1>>)
    /\ \A m \in Searches :
          /\ Len(ops[m].files) = 2
          /\ dirname(ops[m].files[1]) # dirname(ops[m].files[2])
    /\ \E m1 \in Searches, m2 \in Searches : ops[m1].row = 1 /\ ops[m2].row = 2

====
